---------------------------- MODULE Spec2Model ----------------------------
(***************************************************************************)
(* Picture Extractor Subsystem (PES) of GeoMap: the commands config, setup *)
(* and extract of src/plugins/picture_extractor.py and the frame sampler   *)
(* extract_video, over an explicit model of the filesystem.                *)
(*                                                                         *)
(* A path is a sequence of names, the empty sequence standing for "not     *)
(* set".  The filesystem is the set of directories `dirs` and the function *)
(* `files` from file paths to the content signature of the file.           *)
(*                                                                         *)
(* Commands run one at a time from the shell of main.py.  A command that   *)
(* raises click.UsageError is reported and the shell goes on (pc returns   *)
(* to "idle"); click.Abort or any other exception leaves the shell and     *)
(* ends the process (pc = "crashed"), the filesystem staying as it is.     *)
(* A prompt is a step of its own; the statements between two prompts are   *)
(* one step.                                                               *)
(***************************************************************************)
EXTENDS Integers, Sequences, FiniteSets, TLC

VARIABLES
    dirs,        \* the directories that exist
    files,       \* file path -> content signature
    cwd,         \* the process's current directory
    ctx,         \* ctx['PES']: working, source, dest
    pc,          \* position of the running command ("idle" between commands)
    curdir,      \* setup: directory saved at line 107
    move,        \* setup: --move/--copy
    videos,      \* setup: the videos found in the source directory
    sel_images,  \* setup: selected images
    ext_vid,     \* setup: number of videos requested
    sel_videos,  \* setup: selected videos, in selection order
    i,           \* loop counter of setup's and extract's loops
    set_count,   \* extract: number of sets requested
    available,   \* extract: units still offered as a choice
    last,        \* the command that ended last and how it ended
    touched,     \* the running command changed dirs, files, ctx or cwd
    rejected,    \* setup: a candidate was rejected in the running selection
    chosen,      \* extract: the units chosen in this run, in order
    uses,        \* every selection of the session: unit and set
    cmds,        \* number of commands started in the session
    sampler      \* state of one extract_video call stepped frame by frame

vars == <<dirs, files, cwd, ctx, pc, curdir, move, videos, sel_images,
          ext_vid, sel_videos, i, set_count, available, last, touched,
          rejected, chosen, uses, cmds, sampler>>

sessionVars == <<dirs, files, cwd, ctx, pc, curdir, move, videos, sel_images,
                 ext_vid, sel_videos, i, set_count, available, last, touched,
                 rejected, chosen, uses, cmds>>

-----------------------------------------------------------------------------
(* Bounds of the model. *)

\* commands a session may start
MaxCmds == 5
\* commands a brief session may start
MaxBrief == 3
\* frames a sampled video may hold, and the largest stride, when the
\* sampler is stepped frame by frame
MaxFrames == 6
MaxStride == 3

\* default stride of extract_video
DefaultStride == 30

-----------------------------------------------------------------------------
(* Strings built the way the f-strings of the source build them. *)

Digit(d) == CASE d = 0 -> "0" [] d = 1 -> "1" [] d = 2 -> "2" [] d = 3 -> "3"
              [] d = 4 -> "4" [] d = 5 -> "5" [] d = 6 -> "6" [] d = 7 -> "7"
              [] d = 8 -> "8" [] d = 9 -> "9"

RECURSIVE Str(_)
Str(k) == IF k < 10 THEN Digit(k) ELSE Str(k \div 10) \o Digit(k % 10)

RECURSIVE ZeroPad(_, _)
ZeroPad(s, width) == IF Len(s) >= width THEN s ELSE ZeroPad("0" \o s, width)

\* f"{frame_index:05}.jpg"
FrameName(k) == ZeroPad(Str(k), 5) \o ".jpg"

\* f"video{i}" and f"set{i}"
VideoUnit(k) == "video" \o Str(k)
SetName(k) == "set" \o Str(k)

\* str.startswith
StartsWith(s, prefix) ==
    Len(s) >= Len(prefix) /\ SubSeq(s, 1, Len(prefix)) = prefix

-----------------------------------------------------------------------------
(* The filesystem. *)

NoPath == <<>>
Join(d, name) == Append(d, name)
Parent(p) == SubSeq(p, 1, Len(p) - 1)
Prefixes(p) == {SubSeq(p, 1, k) : k \in 1..Len(p)}

Exists(p) == p \in dirs \/ p \in DOMAIN files
IsDir(p) == p \in dirs
IsFile(p) == p \in DOMAIN files
\* os.listdir on the filesystem (D, F)
ListDirIn(D, F, d) ==
    {p[Len(p)] : p \in {q \in D \cup DOMAIN F : Len(q) = Len(d) + 1 /\ Parent(q) = d}}
ListDir(d) == ListDirIn(dirs, files, d)
\* os.makedirs(d, exist_ok=True)
MakeDirs(D, d) == D \cup Prefixes(d)

\* shutil.copy(src, dst) on the file function F
CopyFile(F, src, dst) == [p \in DOMAIN F \cup {dst} |-> IF p = dst THEN F[src] ELSE F[p]]
\* shutil.move(src, dst) on the file function F
MoveFile(F, src, dst) ==
    [p \in (DOMAIN F \ {src}) \cup {dst} |-> IF p = dst THEN F[src] ELSE F[p]]

-----------------------------------------------------------------------------
(* Content signatures and what filetype.guess and the decoder make of them. *)

\* the mime class filetype.guess derives from a file's content
MimeOf(content) ==
    CASE content = "jpeg1" -> "image"
      [] content \in {"clipA", "clipB"} -> "video"
      [] OTHER -> "none"

\* what the decoder finds in a file: the number of frames it decodes and
\* whether the stream then breaks (a decode failure) or ends
StreamOf(content) ==
    CASE content = "clipA" -> [frames |-> 61, corrupt |-> FALSE]
      [] content = "clipB" -> [frames |-> 31, corrupt |-> TRUE]
      [] OTHER -> [frames |-> 0, corrupt |-> TRUE]

\* content of the frame file written for decoded frame k of a video
FrameOf(content, k) == content \o "#" \o Str(k)

-----------------------------------------------------------------------------
(* extract_video: the frame sampler. *)

NoFiles == [p \in {} |-> ""]

\* the state of a call of extract_video(v, output, n) at line 192; `stream`
\* is what the decoder v finds in the file it was opened on
SamplerStart(content, stream, n) ==
    [content |-> content, stream |-> stream, n |-> n, pc |-> "loop",
     frame_index |-> 0, frame_count |-> 0, out |-> NoFiles,
     released |-> FALSE]

\* the value of `sampler` while no call is stepped
SamplerIdle == [SamplerStart("", [frames |-> 0, corrupt |-> FALSE], 1) EXCEPT !.pc = "idle"]

\* ret of v.read(): a frame was decoded
ReadOk(s) == s.frame_count < s.stream.frames

\* the test made on the count after the frame, not before it
ShouldWriteOffByOne(frame_count, n) == (frame_count + 1) % n = 0

\* `not frame_count % n`
ShouldWrite(frame_count, n) == frame_count % n = 0

\* one pass through the body of `while True:`; writeOk tells whether
\* cv2.imwrite stores the frame or raises
SampleStep(s, writeOk) ==
    IF ~ReadOk(s)
    THEN \* break, then v.release() and return
         [s EXCEPT !.pc = "returned", !.released = TRUE]
    ELSE IF ShouldWrite(s.frame_count, s.n)
         THEN IF writeOk
              THEN [s EXCEPT
                      !.out = [f \in DOMAIN s.out \cup {FrameName(s.frame_index)} |->
                                 IF f = FrameName(s.frame_index)
                                 THEN FrameOf(s.content, s.frame_count)
                                 ELSE s.out[f]],
                      !.frame_index = s.frame_index + 1,
                      !.frame_count = s.frame_count + 1]
              ELSE [s EXCEPT !.pc = "raised"]
         ELSE [s EXCEPT !.frame_count = s.frame_count + 1]

\* the whole call, every write succeeding
RECURSIVE RunSampler(_)
RunSampler(s) == IF s.pc # "loop" THEN s ELSE RunSampler(SampleStep(s, TRUE))

-----------------------------------------------------------------------------
(* The session: its directories and the values the caller may type. *)

Launch == <<"L">>       \* the directory the application is started in
Camera == <<"S">>       \* a source directory with one photo and two videos
Empty == <<"E">>        \* an empty directory
Fresh == <<"W">>        \* a path that does not exist yet
Used == <<"X">>         \* a directory holding one foreign file
Staged == <<"W", "input", "video1">>  \* a unit directory of Fresh, once staged
Out == <<"D">>          \* a destination that does not exist yet

WorkingChoices == {NoPath, Fresh, Used}
SourceChoices == {NoPath, Camera, Empty, Staged}
DestChoices == {NoPath, Out}
GlobChoices == {"*", "*.mp4"}

EndsWith(s, suffix) ==
    Len(s) >= Len(suffix) /\ SubSeq(s, Len(s) - Len(suffix) + 1, Len(s)) = suffix

\* glob.glob(expr, root_dir=root) for the patterns of GlobChoices
Glob(expr, root) ==
    {f \in ListDir(root) : expr = "*" \/ EndsWith(f, SubSeq(expr, 2, Len(expr)))}

\* the record kept of a command that ended (or is running)
Ended(cmd, exit) == [cmd |-> cmd, exit |-> exit]

UsageExits == {"usage_source", "usage_working", "usage_setup", "usage_input",
               "usage_nofiles"}

InitSession ==
    /\ dirs = {Launch, Camera, Empty, Used}
    /\ files = [p \in {Join(Camera, "p.jpg"), Join(Camera, "a.mp4"),
                       Join(Camera, "b.mp4"), Join(Used, "notes.txt")} |->
                  CASE p = Join(Camera, "p.jpg") -> "jpeg1"
                    [] p = Join(Camera, "a.mp4") -> "clipA"
                    [] p = Join(Camera, "b.mp4") -> "clipB"
                    [] OTHER -> "text"]
    /\ cwd = Launch
    /\ ctx = [working |-> NoPath, source |-> NoPath, dest |-> NoPath]
    /\ pc = "idle"
    /\ curdir = NoPath
    /\ move = FALSE
    /\ videos = {}
    /\ sel_images = {}
    /\ ext_vid = 0
    /\ sel_videos = <<>>
    /\ i = 0
    /\ set_count = 0
    /\ available = {}
    /\ last = Ended("none", "none")
    /\ touched = FALSE
    /\ rejected = FALSE
    /\ chosen = <<>>
    /\ uses = {}
    /\ cmds = 0

Init == InitSession /\ sampler = SamplerIdle

\* a command may be started: the shell is at its prompt
CanStart == pc = "idle" /\ cmds < MaxCmds

\* the locals of a command are gone once another command starts
SetupLocalsGone ==
    /\ curdir' = NoPath /\ move' = FALSE /\ videos' = {} /\ sel_images' = {}
    /\ ext_vid' = 0 /\ sel_videos' = <<>> /\ rejected' = FALSE
ExtractLocalsGone ==
    /\ set_count' = 0 /\ available' = {} /\ chosen' = <<>>

\* what the running step changed of the filesystem, the configuration and
\* the current directory
Changed == dirs' # dirs \/ files' # files \/ ctx' # ctx \/ cwd' # cwd

-----------------------------------------------------------------------------
(* config *)

\* the same rule without the test that an existing directory is empty
WorkingAcceptedIfDir(D, F, working) ==
    \/ ~(working \in D \/ working \in DOMAIN F)
    \/ working \in D

\* lines 44-50: the working path is taken when it does not exist (and is
\* then created) or is an empty directory
WorkingAccepted(D, F, working) ==
    \/ ~(working \in D \/ working \in DOMAIN F)
    \/ (working \in D /\ ListDirIn(D, F, working) = {})

\* lines 57-63
SourceAccepted(D, F, source) ==
    /\ source \in D \/ source \in DOMAIN F
    /\ ~(source \in D /\ ListDirIn(D, F, source) = {})
    /\ source \in D

\* lines 68-74
DestAccepted(D, F, dest) ==
    \/ ~(dest \in D \/ dest \in DOMAIN F)
    \/ dest \in D

\* the message echoed about the working path, lines 43-55
WorkingMessage(working) ==
    IF working = NoPath THEN "none"
    ELSE IF ~Exists(working) THEN "creating"
    ELSE IF IsDir(working) /\ ListDir(working) = {} THEN "setting"
    ELSE IF IsDir(working) THEN "not_empty"
    ELSE "unknown"

\* the command `config -w working -s source -d dest`, an option left out
\* being NoPath; click refuses a working or dest path that is a file and a
\* source that is not an existing directory before the body runs
config_default_locations(working, source, dest) ==
    /\ CanStart
    /\ <<working, source, dest>> # <<NoPath, NoPath, NoPath>>
    /\ working # NoPath => ~IsFile(working)
    /\ source # NoPath => IsDir(source)
    /\ dest # NoPath => ~IsFile(dest)
    /\ LET takeW == working # NoPath /\ WorkingAccepted(dirs, files, working)
           D1 == IF takeW /\ ~Exists(working) THEN MakeDirs(dirs, working) ELSE dirs
           takeS == source # NoPath /\ SourceAccepted(D1, files, source)
           takeD == dest # NoPath /\ DestAccepted(D1, files, dest)
           D2 == IF takeD /\ dest \notin D1 THEN MakeDirs(D1, dest) ELSE D1
       IN /\ dirs' = D2
          /\ ctx' = [working |-> IF takeW THEN working ELSE ctx.working,
                     source |-> IF takeS THEN source ELSE ctx.source,
                     dest |-> IF takeD THEN dest ELSE ctx.dest]
    /\ last' = Ended("config", WorkingMessage(working))
    /\ cmds' = cmds + 1
    /\ SetupLocalsGone /\ ExtractLocalsGone /\ i' = 0
    /\ UNCHANGED <<files, cwd, pc, uses, sampler>>
    /\ touched' = Changed

-----------------------------------------------------------------------------
(* setup *)

\* istype(f, t), lines 114-115: filetype.guess on source/f
IsType(source, f, t) ==
    /\ Join(source, f) \in DOMAIN files
    /\ MimeOf(files[Join(source, f)]) = t

\* shutil.copy / shutil.move of src to dst succeeds: the source file is
\* there, and a copy is not onto itself
TransferOk(F, src, dst, mv) == src \in DOMAIN F /\ (mv \/ src # dst)

Transfer(F, src, dst, mv) ==
    IF mv THEN (IF src = dst THEN F ELSE MoveFile(F, src, dst))
    ELSE CopyFile(F, src, dst)

\* lines 173-175: the images, in the order glob gave them; stops at the
\* first transfer that raises
RECURSIVE StageImages(_, _, _, _, _)
StageImages(F, source, working, imgs, mv) ==
    IF imgs = {} THEN [files |-> F, ok |-> TRUE]
    ELSE LET img == CHOOSE x \in imgs : TRUE
             src == Join(source, img)
             dst == working \o <<"input", "images", img>>
         IN IF TransferOk(F, src, dst, mv)
            THEN StageImages(Transfer(F, src, dst, mv), source, working,
                             imgs \ {img}, mv)
            ELSE [files |-> F, ok |-> FALSE]

\* the unit directory of the j-th selected video (j from 1): enumerate
\* counts from 0
VideoSlot(j) == VideoUnit(j - 1)

\* lines 180-182: the videos from the j-th on, in selection order; stops at
\* the first transfer that raises
RECURSIVE StageVideos(_, _, _, _, _, _)
StageVideos(F, source, working, sel, j, mv) ==
    IF j > Len(sel) THEN [files |-> F, ok |-> TRUE]
    ELSE LET src == Join(source, sel[j])
             dst == working \o <<"input", VideoSlot(j), sel[j]>>
         IN IF TransferOk(F, src, dst, mv)
            THEN StageVideos(Transfer(F, src, dst, mv), source, working, sel,
                             j + 1, mv)
            ELSE [files |-> F, ok |-> FALSE]

\* lines 161-165
StagedDirs(D, working, imgs, sel) ==
    LET D1 == IF imgs # {} THEN MakeDirs(D, working \o <<"input", "images">>) ELSE D
        D2 == D1 \cup UNION {MakeDirs({}, working \o <<"input", VideoSlot(j)>>) :
                               j \in 1..Len(sel)}
    IN MakeDirs(D2, Join(working, "output"))

\* lines 92-117: the checks, the first chdir and the listing of the source
setup_begin(mv) ==
    /\ CanStart
    /\ cmds' = cmds + 1
    /\ sel_images' = {} /\ ext_vid' = 0 /\ sel_videos' = <<>> /\ rejected' = FALSE
    /\ ExtractLocalsGone /\ i' = 0
    /\ UNCHANGED <<dirs, files, ctx, uses, sampler>>
    /\ IF ctx.source = NoPath
       THEN /\ last' = Ended("setup", "usage_source")
            /\ curdir' = NoPath /\ move' = FALSE /\ videos' = {}
            /\ UNCHANGED <<cwd, pc>>
       ELSE IF ctx.working = NoPath
       THEN /\ last' = Ended("setup", "usage_working")
            /\ curdir' = NoPath /\ move' = FALSE /\ videos' = {}
            /\ UNCHANGED <<cwd, pc>>
       ELSE /\ curdir' = cwd
            /\ cwd' = ctx.source
            /\ move' = mv
            /\ IF \E f \in ListDir(ctx.source) : IsDir(Join(ctx.source, f))
               THEN \* filetype.guess raises on a directory
                    /\ pc' = "crashed"
                    /\ last' = Ended("setup", "listing_error")
                    /\ videos' = {}
               ELSE /\ pc' = "setup_images"
                    /\ last' = Ended("setup", "running")
                    /\ videos' = {f \in ListDir(ctx.source) :
                                    IsType(ctx.source, f, "video")}
    /\ touched' = Changed

\* lines 124-135: the two image prompts
setup_images(ext_img, img_expr) ==
    /\ pc = "setup_images"
    /\ sel_images' = IF ext_img
                     THEN {img \in Glob(img_expr, ctx.source) :
                             IsType(ctx.source, img, "image")}
                     ELSE {}
    /\ pc' = "setup_count"
    /\ UNCHANGED <<dirs, files, cwd, ctx, curdir, move, videos, ext_vid,
                   sel_videos, i, set_count, available, last, touched,
                   rejected, chosen, uses, cmds, sampler>>

\* lines 137-144: the count prompt
setup_count(k) ==
    /\ pc = "setup_count"
    /\ k \in 0..Cardinality(videos)
    /\ ext_vid' = k
    /\ sel_videos' = <<>>
    /\ i' = 0
    /\ pc' = "setup_videos"
    /\ UNCHANGED <<dirs, files, cwd, ctx, curdir, move, videos, sel_images,
                   set_count, available, last, touched, rejected, chosen, uses,
                   cmds, sampler>>

\* the candidate taken as it is, without line 150's test
AcceptsAnyFile(source, vid) == TRUE

\* line 150
AcceptsVideo(source, vid) == IsType(source, vid, "video")

\* lines 145-154: one pass through the selection loop; the candidate is an
\* existing file, named relative to the current directory
setup_video(vid) ==
    /\ pc = "setup_videos"
    /\ i < ext_vid
    /\ vid \in ListDir(cwd) /\ IsFile(Join(cwd, vid))
    /\ IF AcceptsVideo(ctx.source, vid)
       THEN /\ sel_videos' = Append(sel_videos, vid)
            /\ i' = i + 1
            /\ rejected' = FALSE
       ELSE /\ rejected' = TRUE
            /\ UNCHANGED <<sel_videos, i>>
    /\ UNCHANGED <<dirs, files, cwd, ctx, pc, curdir, move, videos, sel_images,
                   ext_vid, set_count, available, last, touched, chosen, uses,
                   cmds, sampler>>

\* click.Abort out of one of setup's prompts
setup_abort ==
    /\ pc \in {"setup_images", "setup_count"} \/ (pc = "setup_videos" /\ i < ext_vid)
    /\ pc' = "crashed"
    /\ last' = Ended("setup", "abort")
    /\ UNCHANGED <<dirs, files, cwd, ctx, curdir, move, videos, sel_images,
                   ext_vid, sel_videos, i, set_count, available, touched,
                   rejected, chosen, uses, cmds, sampler>>

\* lines 155-187, once the selection loop is left
setup_stage ==
    /\ pc = "setup_videos"
    /\ ~(i < ext_vid)
    /\ LET working == ctx.working
           source == ctx.source
           D == StagedDirs(dirs, working, sel_images, sel_videos)
           imgs == StageImages(files, source, working, sel_images, move)
           vids == IF imgs.ok
                   THEN StageVideos(imgs.files, source, working, sel_videos, 1, move)
                   ELSE imgs
       IN /\ dirs' = D
          /\ files' = vids.files
          /\ IF vids.ok
             THEN /\ cwd' = curdir
                  /\ pc' = "idle"
                  /\ last' = Ended("setup", "ok")
             ELSE /\ cwd' = working
                  /\ pc' = "crashed"
                  /\ last' = Ended("setup", "transfer_error")
    /\ UNCHANGED <<ctx, curdir, move, videos, sel_images, ext_vid, sel_videos,
                   i, set_count, available, rejected, chosen, uses, cmds, sampler>>
    /\ touched' = (touched \/ Changed)

-----------------------------------------------------------------------------
(* extract *)

InputDir(working) == Join(working, "input")
OutputDir(working) == Join(working, "output")

\* lines 232-234: the check that setup has run passes unless
\* `not inp and not out`
SetupRan(inp, out) == ~(~inp /\ ~out)

\* lines 240-242
MaxSets(working) ==
    Cardinality({d \in ListDir(InputDir(working)) : StartsWith(d, "video")})
    + (IF "images" \in ListDir(InputDir(working)) THEN 1 ELSE 0)

\* lines 222-246: the checks made before the first prompt
extract_begin ==
    /\ CanStart
    /\ cmds' = cmds + 1
    /\ SetupLocalsGone /\ ExtractLocalsGone /\ i' = 0
    /\ UNCHANGED <<dirs, files, cwd, ctx, uses, sampler>>
    /\ IF ctx.working = NoPath
       THEN /\ last' = Ended("extract", "usage_working")
            /\ UNCHANGED pc
       ELSE IF ~SetupRan("input" \in ListDir(ctx.working),
                         "output" \in ListDir(ctx.working))
       THEN /\ last' = Ended("extract", "usage_setup")
            /\ UNCHANGED pc
       ELSE IF ~IsDir(InputDir(ctx.working))
       THEN \* os.listdir(f"{working}/input") raises FileNotFoundError
            /\ last' = Ended("extract", "error")
            /\ pc' = "crashed"
       ELSE IF MaxSets(ctx.working) = 0
       THEN /\ last' = Ended("extract", "usage_input")
            /\ UNCHANGED pc
       ELSE /\ last' = Ended("extract", "running")
            /\ pc' = "extract_count"
    /\ touched' = Changed

\* lines 248-254 (and line 257 when no set is asked for)
extract_count(n) ==
    /\ pc = "extract_count"
    /\ n \in 0..MaxSets(ctx.working)
    /\ set_count' = n
    /\ available' = ListDir(InputDir(ctx.working))
    /\ i' = 0
    /\ IF n = 0
       THEN pc' = "idle" /\ last' = Ended("extract", "ok")
       ELSE pc' = "extract_loop" /\ UNCHANGED last
    /\ UNCHANGED <<dirs, files, cwd, ctx, curdir, move, videos, sel_images,
                   ext_vid, sel_videos, touched, rejected, chosen, uses, cmds,
                   sampler>>

\* the pool of choices left as it is, without line 263
KeepChoice(avail, choice) == avail

\* line 263
RemoveChoice(avail, choice) == avail \ {choice}

\* lines 268-270: every file of input/images copied into the set
CopyImages(F, working, set) ==
    LET imgs == ListDirIn(dirs, F, working \o <<"input", "images">>)
        dst(img) == working \o <<"output", set, img>>
    IN [p \in DOMAIN F \cup {dst(img) : img \in imgs} |->
          IF \E img \in imgs : p = dst(img)
          THEN F[working \o <<"input", "images", CHOOSE img \in imgs : p = dst(img)>>]
          ELSE F[p]]

\* lines 276-278: the frames extract_video leaves in the set
WriteFrames(F, working, set, vpath) ==
    LET run == RunSampler(SamplerStart(F[vpath], StreamOf(F[vpath]), DefaultStride))
        dst(f) == working \o <<"output", set, f>>
    IN [p \in DOMAIN F \cup {dst(f) : f \in DOMAIN run.out} |->
          IF \E f \in DOMAIN run.out : p = dst(f)
          THEN run.out[CHOOSE f \in DOMAIN run.out : p = dst(f)]
          ELSE F[p]]

\* lines 257-278: one pass through the loop, from the prompt on
extract_choose(choice) ==
    /\ pc = "extract_loop"
    /\ i < set_count
    /\ choice \in available
    /\ LET working == ctx.working
           set == SetName(i)
           unit == working \o <<"input", choice>>
           finish == IF i + 1 < set_count
                     THEN i' = i + 1 /\ UNCHANGED <<pc, last>>
                     ELSE i' = 0 /\ pc' = "idle" /\ last' = Ended("extract", "ok")
       IN /\ available' = RemoveChoice(available, choice)
          /\ chosen' = Append(chosen, choice)
          /\ dirs' = MakeDirs(dirs, working \o <<"output", set>>)
          /\ uses' = uses \cup {[unit |-> unit, set |-> working \o <<"output", set>>]}
          /\ IF choice = "images"
             THEN /\ files' = CopyImages(files, working, set)
                  /\ finish
             ELSE IF StartsWith(choice, "video")
             THEN IF ListDir(unit) = {}
                  THEN /\ pc' = "idle"
                       /\ last' = Ended("extract", "usage_nofiles")
                       /\ UNCHANGED <<files, i>>
                  ELSE /\ \E vname \in ListDir(unit) :
                            files' = WriteFrames(files, working, set, Join(unit, vname))
                       /\ finish
             ELSE /\ UNCHANGED files
                  /\ finish
    /\ UNCHANGED <<cwd, ctx, curdir, move, videos, sel_images, ext_vid,
                   sel_videos, set_count, rejected, cmds, sampler>>
    /\ touched' = (touched \/ Changed)

\* click.Abort out of one of extract's prompts
extract_abort ==
    /\ pc \in {"extract_count", "extract_loop"}
    /\ pc' = "crashed"
    /\ last' = Ended("extract", "abort")
    /\ UNCHANGED <<dirs, files, cwd, ctx, curdir, move, videos, sel_images,
                   ext_vid, sel_videos, i, set_count, available, touched,
                   rejected, chosen, uses, cmds, sampler>>

-----------------------------------------------------------------------------
(* The session. *)

Next ==
    \/ \E w \in WorkingChoices, s \in SourceChoices, d \in DestChoices :
          config_default_locations(w, s, d)
    \/ \E mv \in BOOLEAN : setup_begin(mv)
    \/ \E ext_img \in BOOLEAN, img_expr \in GlobChoices : setup_images(ext_img, img_expr)
    \/ \E k \in 0..Cardinality(videos) : setup_count(k)
    \/ \E vid \in ListDir(cwd) : setup_video(vid)
    \/ setup_abort
    \/ setup_stage
    \/ extract_begin
    \/ \E n \in 0..MaxSets(ctx.working) : extract_count(n)
    \/ \E choice \in available : extract_choose(choice)
    \/ extract_abort

Spec == Init /\ [][Next]_vars

\* sessions of at most MaxBrief commands
Brief == cmds < MaxBrief
NextBrief ==
    \/ Brief /\ \E w \in WorkingChoices, s \in SourceChoices, d \in DestChoices :
                   config_default_locations(w, s, d)
    \/ Brief /\ \E mv \in BOOLEAN : setup_begin(mv)
    \/ \E ext_img \in BOOLEAN, img_expr \in GlobChoices : setup_images(ext_img, img_expr)
    \/ \E k \in 0..Cardinality(videos) : setup_count(k)
    \/ \E vid \in ListDir(cwd) : setup_video(vid)
    \/ setup_abort
    \/ setup_stage
    \/ Brief /\ extract_begin
    \/ \E n \in 0..MaxSets(ctx.working) : extract_count(n)
    \/ \E choice \in available : extract_choose(choice)
    \/ extract_abort
SpecBrief == Init /\ [][NextBrief]_vars

\* a caller who, asked for a video, does in the end name one, and a command
\* that goes on once its loop is left
video_accepted == \E vid \in ListDir(cwd) : setup_video(vid) /\ i' = i + 1
SpecBriefFair ==
    SpecBrief /\ WF_vars(video_accepted) /\ WF_vars(setup_stage)

-----------------------------------------------------------------------------
(* The sampler alone, stepped one read at a time, on every stream of up to *)
(* MaxFrames frames that ends or breaks, for every stride up to MaxStride. *)

InitVideo ==
    /\ InitSession
    /\ sampler \in {SamplerStart("clip", [frames |-> F, corrupt |-> c], n) :
                      F \in 0..MaxFrames, c \in BOOLEAN, n \in 1..MaxStride}

\* v.read() and what follows it in the loop body, the write succeeding
video_read ==
    /\ sampler.pc = "loop"
    /\ sampler' = SampleStep(sampler, TRUE)
    /\ UNCHANGED sessionVars

\* the same pass with cv2.imwrite raising
video_write_fails ==
    /\ sampler.pc = "loop"
    /\ ReadOk(sampler) /\ ShouldWrite(sampler.frame_count, sampler.n)
    /\ sampler' = SampleStep(sampler, FALSE)
    /\ UNCHANGED sessionVars

NextVideo == video_read \/ video_write_fails

SpecVideo == InitVideo /\ [][NextVideo]_vars

-----------------------------------------------------------------------------
(* Claims about the sampler (SpecVideo). *)

Ceil(a, b) == (a + b - 1) \div b

\* C1: when the reader reports the end of a stream of F decoded frames read
\* with stride n, exactly ceil(F/n) files are written, named by the gap-free
\* 5-digit sequence 00000.jpg .. , file j holds decoded frame j*n,
\* frame_count = F and frame_index = the number of files.
C1_StrideCorrect ==
    sampler.pc = "returned" =>
        LET F == sampler.stream.frames
            n == sampler.n
            c == Ceil(F, n)
        IN /\ DOMAIN sampler.out = {FrameName(j) : j \in 0..(c - 1)}
           /\ Cardinality(DOMAIN sampler.out) = c
           /\ \A j \in 0..(c - 1) :
                 /\ Len(FrameName(j)) = 9
                 /\ sampler.out[FrameName(j)] = FrameOf(sampler.content, j * n)
           /\ sampler.frame_count = F
           /\ sampler.frame_index = c

C1_Witness ==
    /\ sampler.pc = "returned"
    /\ sampler.stream.frames = 5 /\ sampler.n = 2
    /\ DOMAIN sampler.out = {"00000.jpg", "00001.jpg", "00002.jpg"}
    /\ sampler.out["00002.jpg"] = "clip#4"

\* C10: a stream that breaks is not reported as a clean finish, and the
\* decoder is released on every way out of extract_video.
C10_DecodeFailureSurfaced ==
    /\ sampler.pc = "returned" => ~sampler.stream.corrupt
    /\ sampler.pc \in {"returned", "raised"} => sampler.released

-----------------------------------------------------------------------------
(* Claims about the session. *)

NoDuplicates(seq) == \A j, k \in 1..Len(seq) : j # k => seq[j] # seq[k]

\* C2: within one run of extract no unit is chosen twice: a choice comes from
\* `available` and leaves it, `available` holds (initial size - i) names at
\* iteration i, and no iteration finds `available` empty.
C2_NoUnitTwice ==
    /\ pc = "extract_loop" =>
          /\ i < set_count
          /\ i = Len(chosen)
          /\ available # {}
          /\ available \subseteq ListDir(InputDir(ctx.working))
          /\ Cardinality(available)
               = Cardinality(ListDir(InputDir(ctx.working))) - i
    /\ last.cmd = "extract" =>
          /\ NoDuplicates(chosen)
          /\ \A j \in 1..Len(chosen) : chosen[j] \notin available
          /\ Len(chosen) <= set_count

C2_Witness ==
    /\ last = Ended("extract", "ok")
    /\ Len(chosen) = 3
    /\ available = {}

\* C3: extract with the working directory set and working/input absent ends
\* in the usage error that names setup, and the check that setup ran passes
\* only when working/input and working/output both exist.
C3_MissingInputNamesSetup ==
    (last.cmd = "extract" /\ ctx.working # NoPath) =>
        /\ ~IsDir(InputDir(ctx.working)) => last.exit = "usage_setup"
        /\ last.exit # "usage_setup" =>
              IsDir(InputDir(ctx.working)) /\ IsDir(OutputDir(ctx.working))

Under(D, p) == {q \in D : Len(q) > Len(p) /\ SubSeq(q, 1, Len(p)) = p}

\* C4: config --working p creates a missing p and takes it, takes an empty
\* directory p, and refuses a non-empty p leaving p's contents, the
\* filesystem and the working path as they were; so a working path is only
\* ever set to a directory that is empty as it is taken.
C4_WorkingPathRule ==
    [][/\ \A w \in WorkingChoices \ {NoPath}, s \in SourceChoices, d \in DestChoices :
             config_default_locations(w, s, d) =>
                /\ ~Exists(w) => (w \in dirs' /\ ctx'.working = w)
                /\ (IsDir(w) /\ ListDir(w) = {}) => ctx'.working = w
                /\ (IsDir(w) /\ ListDir(w) # {}) =>
                      /\ ctx'.working = ctx.working
                      /\ files' = files
                      /\ Under(dirs', w) = Under(dirs, w)
                      /\ d = NoPath => dirs' = dirs
       /\ ctx'.working # ctx.working =>
             /\ ctx'.working \in dirs'
             /\ ListDirIn(dirs', files', ctx'.working) = {}]_vars

C4_Witness ==
    /\ last = Ended("config", "not_empty")
    /\ ctx.working = NoPath
    /\ ListDir(Used) = {"notes.txt"}

\* C5: setup, once k videos are accepted, leaves working/input with exactly
\* the video directories video0..video{k-1}, video{i} holding exactly the
\* i-th video selected.
C5_StagedInSelectionOrder ==
    (last.cmd = "setup" /\ last.exit \in {"ok", "transfer_error"}) =>
        LET inp == InputDir(ctx.working)
            k == Len(sel_videos)
        IN /\ {d \in ListDir(inp) : StartsWith(d, "video")}
                = {VideoUnit(j) : j \in 0..(k - 1)}
           /\ \A j \in 0..(k - 1) :
                 ListDir(Join(inp, VideoUnit(j))) = {sel_videos[j + 1]}

\* C6: over a whole session every unit is consumed by at most one set and
\* every set is populated from one unit only.
C6_OneUnitOneSet ==
    \A u1, u2 \in uses :
        /\ u1.unit = u2.unit => u1.set = u2.set
        /\ u1.set = u2.set => u1.unit = u2.unit

\* C7: a command that ends in a usage error has changed nothing: not the
\* filesystem, not the configuration, not the current directory.
C7_UsageErrorNoSideEffect ==
    (last.exit \in UsageExits /\ pc = "idle") => ~touched

\* C8: on every way out of setup after its first chdir the current directory
\* is the one setup was invoked in.
C8_CurrentDirRestored ==
    (last.cmd = "setup" /\ pc \in {"idle", "crashed"} /\ curdir # NoPath) =>
        cwd = curdir

\* C9: in setup's selection loop a candidate that is no video is turned down
\* without using a slot and without ending the command, a video is appended
\* and fills one slot, the loop is left exactly when k videos are accepted,
\* and with a caller who in the end names videos the loop is left.
C9_SelectionLoop ==
    /\ [](pc = "setup_videos" =>
            /\ i = Len(sel_videos)
            /\ i <= ext_vid
            /\ ext_vid <= Cardinality(videos)
            /\ \A j \in 1..Len(sel_videos) :
                  IsType(ctx.source, sel_videos[j], "video"))
    /\ [][/\ \A vid \in ListDir(cwd) :
                setup_video(vid) =>
                   IF IsType(ctx.source, vid, "video")
                   THEN sel_videos' = Append(sel_videos, vid) /\ i' = i + 1
                   ELSE /\ sel_videos' = sel_videos /\ i' = i
                        /\ pc' = "setup_videos" /\ last' = last
          /\ (pc = "setup_videos" /\ pc' # "setup_videos" /\ last'.exit # "abort")
                => Len(sel_videos) = ext_vid]_vars
    /\ (pc = "setup_videos") ~> (pc # "setup_videos")

C9_Witness ==
    /\ pc = "setup_videos"
    /\ rejected
    /\ ext_vid = 2 /\ i = 1 /\ Len(sel_videos) = 1

=============================================================================
